---- MODULE Spec2Model ----
(***************************************************************************)
(* nat_demo: the LangGraph time agent (src/src/nat_demo/                   *)
(* langgraph_time_agent.py).                                               *)
(*                                                                         *)
(* Four specifications over one set of definitions:                       *)
(*   Spec         one request through _response_fn, over every trace the   *)
(*                agent loop can return with at most MaxCalls tool calls;  *)
(*   SpecServe    up to MaxRequests requests interleaved at the await of   *)
(*                graph.ainvoke, sharing the lazily built _graph;          *)
(*   SpecResolve  invocations of _get_timezone_for_city over the           *)
(*                geocoding provider's responses;                          *)
(*   SpecConvert  convert_time, forward and back, with a running clock.    *)
(*                                                                         *)
(* Python values are records [kind, text]: kind is the Python type, text   *)
(* is what str() gives.  Text is a TLA+ string; a time string is a         *)
(* sequence of one-character strings so that parsing it is computed.       *)
(* Instants are minutes since 2026-03-28 00:00 UTC (day 0).                *)
(***************************************************************************)
EXTENDS Integers, Sequences, FiniteSets, TLC

VARIABLES
    registered,   \* langgraph_time_agent_function has run up to its yield
    _graph,       \* the closure's _graph: 0 is None, else the agent object's id
    created,      \* number of create_react_agent calls so far
    pc,           \* per request: "idle", "awaiting", "returned", "raised"
    used,         \* per request: the agent object _get_graph() handed to it
    trace,        \* per request: result["messages"]
    resps,        \* per request: the provider's response to each post-pass lookup
    outcome,      \* per request: what _response_fn produced
    now,          \* the clock, minutes since day 0 00:00 UTC
    rlog,         \* SpecResolve: one record per resolver invocation
    geoCalls,     \* SpecResolve: outbound geocoding requests so far
    cv            \* SpecConvert: the forward and backward conversion

vars == <<registered, _graph, created, pc, used, trace, resps, outcome, now,
          rlog, geoCalls, cv>>

----------------------------------------------------------------------------
(* Bounds *)

MaxCalls == 2

MaxRequests == 2

MaxInvocations == 2

MaxDays == 2

----------------------------------------------------------------------------
(* Python values *)

StrVal(s) == [kind |-> "str", text |-> s]

NoneVal == [kind |-> "none", text |-> "None"]

ListVal == [kind |-> "list", text |-> "['Tokyo', 'Warsaw']"]

\* City names the model uses; "tokyo" differs from "Tokyo" only in case.
CityNames == {"Tokyo", "Warsaw", "tokyo"}

\* Unicode code points of a city name, the order Python compares str by.
CodePoints(s) ==
    CASE s = "Tokyo"  -> <<84, 111, 107, 121, 111>>
      [] s = "Warsaw" -> <<87, 97, 114, 115, 97, 119>>
      [] s = "tokyo"  -> <<116, 111, 107, 121, 111>>
      [] s = "Dubai"  -> <<68, 117, 98, 97, 105>>
      [] s = "Krakow" -> <<75, 114, 97, 107, 111, 119>>

RECURSIVE SeqLess(_, _)
\* Lexicographic order of two sequences of code points (str.__lt__).
SeqLess(a, b) ==
    IF b = <<>> THEN FALSE
    ELSE IF a = <<>> THEN TRUE
    ELSE IF a[1] # b[1] THEN a[1] < b[1]
    ELSE SeqLess(Tail(a), Tail(b))

StrLess(s, t) == SeqLess(CodePoints(s), CodePoints(t))

----------------------------------------------------------------------------
(* The geocoding provider and _get_timezone_for_city (lines 29-39) *)

\* The IANA zone the provider lists for a city name.
TzOf(name) ==
    CASE name = "Tokyo"  -> "Asia/Tokyo"
      [] name = "tokyo"  -> "Asia/Tokyo"
      [] name = "Warsaw" -> "Europe/Warsaw"
      [] name = "Krakow" -> "Europe/Warsaw"
      [] name = "Dubai"  -> "Asia/Dubai"

\* A successful lookup: one match carrying the city's zone.
OkResponse(name) ==
    [status_code |-> 200,
     json |-> [results |-> <<[name |-> name, timezone |-> TzOf(name)]>>]]

\* No match: the provider answers 200 without a "results" key.
NoResultsResponse ==
    [status_code |-> 200, json |-> [generationtime_ms |-> 1]]

\* Every response the provider can give to a lookup of a str name.
GeoResponses(name) ==
    { OkResponse(name),
      NoResultsResponse,
      [status_code |-> 200, json |-> [results |-> <<>>]],
      [status_code |-> 200, json |-> [results |-> <<[name |-> name]>>]],
      [status_code |-> 200,
       json |-> [results |-> <<[name |-> name, timezone |-> ""]>>]],
      [status_code |-> 503, json |-> [generationtime_ms |-> 1]] }

\* The responses the post-pass lookups are checked over: a match, no match,
\* a match whose zone ZoneInfo rejects, an outage.
PostPassResponses(name) ==
    { OkResponse(name),
      NoResultsResponse,
      [status_code |-> 200,
       json |-> [results |-> <<[name |-> name, timezone |-> ""]>>]],
      [status_code |-> 503, json |-> [generationtime_ms |-> 1]] }

\* requests drops a None parameter, and the provider rejects a nameless search.
GeoResponsesFor(city) ==
    IF city.kind = "str" THEN PostPassResponses(city.text)
    ELSE {[status_code |-> 400, json |-> [generationtime_ms |-> 1]]}

Raised(err) == [raised |-> err, value |-> ""]

Returned(v) == [raised |-> "none", value |-> v]

\* "results" in geo_data in place of geo_data.get("results"): an empty array
\* passes the check and indexing it raises.
_get_timezone_for_city_NoEmptyCheck(resp) ==
    IF resp.status_code >= 400 THEN Raised("HTTPError")
    ELSE IF "results" \notin DOMAIN resp.json THEN Raised("ValueError")
    ELSE IF Len(resp.json.results) = 0 THEN Raised("IndexError")
    ELSE IF "timezone" \notin DOMAIN resp.json.results[1] THEN Raised("KeyError")
    ELSE Returned(resp.json.results[1].timezone)

\* _get_timezone_for_city on the provider's response to its one request.
_get_timezone_for_city(resp) ==
    IF resp.status_code >= 400 THEN Raised("HTTPError")
    ELSE IF "results" \notin DOMAIN resp.json \/ Len(resp.json.results) = 0
         THEN Raised("ValueError")
    ELSE IF "timezone" \notin DOMAIN resp.json.results[1] THEN Raised("KeyError")
    ELSE Returned(resp.json.results[1].timezone)

----------------------------------------------------------------------------
(* zoneinfo and datetime *)

ZoneKeys == {"Asia/Tokyo", "Asia/Dubai", "Europe/Warsaw"}

\* Europe/Warsaw turns from CET to CEST on day 1 (2026-03-29) at 01:00 UTC.
WarsawTransitionUtc == 1 * 1440 + 60

\* ZoneInfo.fromutc: the zone's offset (minutes) at a UTC instant.
UtcOffsetAt(tz, utc) ==
    CASE tz = "Asia/Tokyo"    -> 540
      [] tz = "Asia/Dubai"    -> 240
      [] tz = "Europe/Warsaw" -> IF utc < WarsawTransitionUtc THEN 60 ELSE 120

\* ZoneInfo.utcoffset of a wall-clock time with fold = 0: the offset before a
\* transition applies up to the later of the two wall-clock images of it.
WallOffsetAt(tz, wall) ==
    CASE tz = "Asia/Tokyo"    -> 540
      [] tz = "Asia/Dubai"    -> 240
      [] tz = "Europe/Warsaw" ->
            IF wall < WarsawTransitionUtc + 120 THEN 60 ELSE 120

\* strftime("%Z")
TzName(tz, utc) ==
    CASE tz = "Asia/Tokyo"    -> "JST"
      [] tz = "Asia/Dubai"    -> "+04"
      [] tz = "Europe/Warsaw" -> IF utc < WarsawTransitionUtc THEN "CET" ELSE "CEST"

\* datetime.now(tz) as wall-clock minutes since day 0 00:00.
WallNow(tz, utc) == utc + UtcOffsetAt(tz, utc)

Digit(n) == CASE n = 0 -> "0" [] n = 1 -> "1" [] n = 2 -> "2" [] n = 3 -> "3"
              [] n = 4 -> "4" [] n = 5 -> "5" [] n = 6 -> "6" [] n = 7 -> "7"
              [] n = 8 -> "8" [] n = 9 -> "9"

\* "%02d"
Pad2(n) == <<Digit(n \div 10), Digit(n % 10)>>

\* strftime("%H:%M") of a wall-clock time, as a sequence of characters.
strftime_HM(wall) ==
    Pad2((wall % 1440) \div 60) \o <<":">> \o Pad2(wall % 60)

RECURSIVE Text(_)
\* The str made of a sequence of characters.
Text(chars) == IF chars = <<>> THEN "" ELSE chars[1] \o Text(Tail(chars))

----------------------------------------------------------------------------
(* The message trace graph.ainvoke returns (line 120) *)

get_current_time_call(v) == [name |-> "get_current_time", args |-> [city_name |-> v]]

convert_time_call(a, b) ==
    [name |-> "convert_time",
     args |-> [source_city |-> a, target_city |-> b, time_str |-> StrVal("15:00")]]

\* The tool calls the model lets the language model emit.  Arguments are the
\* model's own JSON, unvalidated: a null, a list, a missing city argument.
ToolCalls ==
    { get_current_time_call(v) :
          v \in {StrVal(c) : c \in CityNames} \cup {NoneVal, ListVal} }
    \cup { convert_time_call(StrVal("Warsaw"), StrVal("Tokyo")),
           convert_time_call(StrVal("Tokyo"), StrVal("Tokyo")),
           convert_time_call(StrVal("Tokyo"), NoneVal),
           [name |-> "convert_time", args |-> [time_str |-> StrVal("15:00")]] }

HumanMessage(text) == [type |-> "human", content |-> StrVal(text)]

AIMessage(content, tcs) == [type |-> "ai", content |-> content, tool_calls |-> tcs]

\* The result of the i-th tool call of the trace; the tools return str.
ToolMessage(i) ==
    [type |-> "tool", content |-> StrVal("tool output " \o ToString(i)),
     tool_call_id |-> i]

\* What the closing assistant message can carry: text, or content blocks.
ClosingContents ==
    { StrVal("It is evening in Tokyo."),
      [kind |-> "list", text |-> "[{'type': 'text', 'text': 'It is evening.'}]"] }

\* Last call of the round that starts at call i: rounds end at the cuts.
RoundEnd(n, cuts, i) ==
    CHOOSE e \in i..n : (e = n \/ e \in cuts) /\ \A j \in i..(e - 1) : j \notin cuts

RECURSIVE Rounds(_, _, _)
\* The loop's rounds from call i on: an assistant message carrying the
\* round's tool calls, then one tool message per call.
Rounds(calls, cuts, i) ==
    IF i > Len(calls) THEN <<>>
    ELSE LET e == RoundEnd(Len(calls), cuts, i)
         IN  <<AIMessage(StrVal(""), SubSeq(calls, i, e))>>
             \o [k \in 1..(e - i + 1) |-> ToolMessage(i + k - 1)]
             \o Rounds(calls, cuts, e + 1)

\* The trace of a ReAct loop: the user's query, the rounds, the closing message.
BuildTrace(calls, cuts, closing) ==
    <<HumanMessage("What time is it?")>> \o Rounds(calls, cuts, 1)
        \o <<AIMessage(closing, <<>>)>>

\* Every trace with at most n tool calls.
TracesUpTo(n) ==
    UNION { { BuildTrace(calls, cuts, closing) :
                cuts \in SUBSET (1..(k - 1)), closing \in ClosingContents,
                calls \in [1..k -> ToolCalls] } : k \in 0..n }

Traces == TracesUpTo(MaxCalls)

\* The traces of the serving specification: no call, one call, one conversion.
ServeTraces ==
    { BuildTrace(calls, {}, StrVal("It is evening in Tokyo.")) :
        calls \in { <<>>,
                    <<get_current_time_call(StrVal("Tokyo"))>>,
                    <<get_current_time_call(StrVal("Warsaw"))>>,
                    <<convert_time_call(StrVal("Tokyo"), NoneVal)>> } }

----------------------------------------------------------------------------
(* _response_fn, lines 122-144 *)

KeyOrder == <<"city_name", "source_city", "target_city">>

\* Line 131-132: cities.add(tc["args"][key]); a list is unhashable.
AddArg(acc, args, key) ==
    IF acc.raised # "none" \/ key \notin DOMAIN args THEN acc
    ELSE IF args[key].kind = "list" THEN [acc EXCEPT !.raised = "TypeError"]
    ELSE [acc EXCEPT !.cities = @ \cup {args[key]}]

\* Only the city_name key is read.
AddCall_CityNameOnly(acc, tc) == AddArg(acc, tc.args, KeyOrder[1])

\* Lines 130-132 for one tool call.
AddCall(acc, tc) ==
    AddArg(AddArg(AddArg(acc, tc.args, KeyOrder[1]), tc.args, KeyOrder[2]),
           tc.args, KeyOrder[3])

RECURSIVE AddCalls(_, _)
\* Line 129: for tc in msg.tool_calls.
AddCalls(acc, tcs) ==
    IF tcs = <<>> THEN acc ELSE AddCalls(AddCall(acc, tcs[1]), Tail(tcs))

\* Lines 126-132 for one message.
WalkMessage(acc, msg) ==
    LET a1 == IF msg.type = "tool"
              THEN [acc EXCEPT !.tool_results = Append(@, msg.content)]
              ELSE acc
    IN  IF msg.type = "ai" /\ "tool_calls" \in DOMAIN msg
        THEN AddCalls(a1, msg.tool_calls)
        ELSE a1

RECURSIVE WalkFrom(_, _)
WalkFrom(acc, msgs) ==
    IF msgs = <<>> \/ acc.raised # "none" THEN acc
    ELSE WalkFrom(WalkMessage(acc, msgs[1]), Tail(msgs))

\* Lines 123-132: one pass over result["messages"].
Walk(msgs) == WalkFrom([tool_results |-> <<>>, cities |-> {}, raised |-> "none"], msgs)

\* sorted() raises TypeError when it must compare a str with None.
Sortable(S) == Cardinality({c.kind : c \in S}) <= 1

RECURSIVE sorted_Descending(_)
\* sorted(cities, reverse=True)
sorted_Descending(S) ==
    IF S = {} THEN <<>>
    ELSE LET m == CHOOSE c \in S : \A d \in S \ {c} : StrLess(d.text, c.text)
         IN  <<m>> \o sorted_Descending(S \ {m})

RECURSIVE sorted(_)
\* sorted(cities): ascending by code point.
sorted(S) ==
    IF S = {} THEN <<>>
    ELSE LET m == CHOOSE c \in S : \A d \in S \ {c} : StrLess(c.text, d.text)
         IN  <<m>> \o sorted(S \ {m})

\* Lines 138-140: the try block for one city.
Lookup(city, resp, clock) ==
    LET r == _get_timezone_for_city(resp)
    IN  IF r.raised # "none" THEN r
        ELSE IF r.value \notin ZoneKeys THEN Raised("ZoneInfoNotFoundError")
        ELSE Returned("Current time in " \o city.text \o ": "
                      \o Text(strftime_HM(WallNow(r.value, clock)))
                      \o " " \o TzName(r.value, clock))

\* Lines 137-142 for one city: the lookup is issued, and its fragment is
\* appended unless the try block raised.
PostPassStep(acc, city, rs, clock) ==
    LET l == Lookup(city, rs[city], clock)
    IN  [parts |-> IF l.raised = "none" THEN Append(acc.parts, StrVal(l.value))
                   ELSE acc.parts,
         lookups |-> Append(acc.lookups, city)]

RECURSIVE PostPass_AbortsOnFailure(_, _, _, _)
PostPass_AbortsOnFailure(acc, cities, rs, clock) ==
    IF cities = <<>> THEN acc
    ELSE IF Lookup(cities[1], rs[cities[1]], clock).raised # "none"
         THEN [acc EXCEPT !.lookups = Append(@, cities[1])]
    ELSE PostPass_AbortsOnFailure(PostPassStep(acc, cities[1], rs, clock),
                                  Tail(cities), rs, clock)

RECURSIVE PostPass(_, _, _, _)
\* Lines 136-142: for city in sorted(cities), in order, to the end.
PostPass(acc, cities, rs, clock) ==
    IF cities = <<>> THEN acc
    ELSE PostPass(PostPassStep(acc, cities[1], rs, clock), Tail(cities), rs, clock)

RECURSIVE Join(_, _)
\* sep.join(parts), every part a str.
Join(sep, parts) ==
    IF parts = <<>> THEN ""
    ELSE IF Len(parts) = 1 THEN parts[1].text
    ELSE parts[1].text \o sep \o Join(sep, Tail(parts))

Failure(err) == [raised |-> err, parts |-> <<>>, answer |-> "", lookups |-> <<>>]

\* parts = list(tool_results), without the fallback.
InitialParts_NoFallback(tool_results, msgs) == tool_results

\* The closing message is appended to the tool results as well.
InitialParts_WithClosing(tool_results, msgs) ==
    Append(tool_results, StrVal(msgs[Len(msgs)].content.text))

\* Line 135
InitialParts(tool_results, msgs) ==
    IF tool_results # <<>> THEN tool_results
    ELSE <<StrVal(msgs[Len(msgs)].content.text)>>

\* Lines 122-144, given the trace, the provider's responses and the clock.
_response_fn(msgs, rs, clock) ==
    LET w == Walk(msgs)
    IN  IF w.raised # "none" THEN Failure(w.raised)
        ELSE IF w.tool_results = <<>> /\ msgs = <<>> THEN Failure("IndexError")
        ELSE IF ~Sortable(w.cities) THEN Failure("TypeError")
        ELSE LET p == PostPass([parts |-> InitialParts(w.tool_results, msgs),
                                lookups |-> <<>>],
                               sorted(w.cities), rs, clock)
             IN  IF \E i \in 1..Len(p.parts) : p.parts[i].kind # "str"
                 THEN [Failure("TypeError") EXCEPT !.lookups = p.lookups]
                 ELSE [raised |-> "none", parts |-> p.parts,
                       answer |-> Join(". ", p.parts), lookups |-> p.lookups]

\* The cities the post-pass will look up: none when the pass raises before.
LookedUp(msgs) ==
    LET w == Walk(msgs)
    IN  IF w.raised = "none" /\ Sortable(w.cities) THEN w.cities ELSE {}

\* The provider's possible answers to the post-pass lookups of a trace.
LookupResponses(msgs) ==
    LET S == LookedUp(msgs)
    IN  { rs \in [S -> UNION {GeoResponsesFor(c) : c \in S}] :
            \A c \in S : rs[c] \in GeoResponsesFor(c) }

----------------------------------------------------------------------------
(* The registered function and its requests, lines 97-150 *)

Requests == 1..MaxRequests

NoOutcome == [raised |-> "none", parts |-> <<>>, answer |-> "", lookups |-> <<>>]

\* Without the "is None" test: every request builds an agent.
_get_graph_AlwaysBuilds(g, n) == [graph |-> n + 1, created |-> n + 1]

\* Lines 106-116: build the agent on first use, then hand out the same one.
_get_graph(g, n) ==
    IF g = 0 THEN [graph |-> n + 1, created |-> n + 1]
    ELSE [graph |-> g, created |-> n]

\* Lines 98-104 and the yield at 146: registration leaves _graph = None.
Register ==
    /\ ~registered
    /\ registered' = TRUE
    /\ _graph' = 0
    /\ UNCHANGED <<created, pc, used, trace, resps, outcome, now, rlog, geoCalls, cv>>

\* Lines 119-120 up to the await: the one suspension point of a request.
Call(r) ==
    /\ registered
    /\ pc[r] = "idle"
    /\ LET g == _get_graph(_graph, created)
       IN  /\ _graph' = g.graph
           /\ created' = g.created
           /\ used' = [used EXCEPT ![r] = g.graph]
    /\ pc' = [pc EXCEPT ![r] = "awaiting"]
    /\ UNCHANGED <<registered, trace, resps, outcome, now, rlog, geoCalls, cv>>

\* Line 120 returns a trace; lines 122-144 then run without suspending.
AgentReturns(r, msgs) ==
    /\ pc[r] = "awaiting"
    /\ \E rs \in LookupResponses(msgs) :
         LET out == _response_fn(msgs, rs, now)
         IN  /\ trace' = [trace EXCEPT ![r] = msgs]
             /\ resps' = [resps EXCEPT ![r] = rs]
             /\ outcome' = [outcome EXCEPT ![r] = out]
             /\ pc' = [pc EXCEPT ![r] = IF out.raised = "none" THEN "returned"
                                        ELSE "raised"]
    /\ UNCHANGED <<registered, _graph, created, used, now, rlog, geoCalls, cv>>

\* The agent is dropped when the loop fails, to be rebuilt by the next request.
AgentRaises_DropsGraph(r) ==
    /\ pc[r] = "awaiting"
    /\ pc' = [pc EXCEPT ![r] = "raised"]
    /\ outcome' = [outcome EXCEPT ![r] = Failure("AgentLoopFailure")]
    /\ _graph' = 0
    /\ UNCHANGED <<registered, created, used, trace, resps, now, rlog, geoCalls, cv>>

\* Line 120 raises: the error leaves _response_fn at once.
AgentRaises(r) ==
    /\ pc[r] = "awaiting"
    /\ pc' = [pc EXCEPT ![r] = "raised"]
    /\ outcome' = [outcome EXCEPT ![r] = Failure("AgentLoopFailure")]
    /\ UNCHANGED <<registered, _graph, created, used, trace, resps, now,
                   rlog, geoCalls, cv>>

NoConversion == [phase |-> "none"]

InitRequests ==
    /\ registered = FALSE
    /\ _graph = 0
    /\ created = 0
    /\ pc = [r \in Requests |-> "idle"]
    /\ used = [r \in Requests |-> 0]
    /\ trace = [r \in Requests |-> <<>>]
    /\ resps = [r \in Requests |-> <<>>]
    /\ outcome = [r \in Requests |-> NoOutcome]
    /\ rlog = <<>>
    /\ geoCalls = 0
    /\ cv = NoConversion

\* The clock values of the request specifications: before and after the
\* Warsaw transition.
Init ==
    /\ InitRequests
    /\ now \in {WarsawTransitionUtc - 90, WarsawTransitionUtc + 600}

\* One request at a time, over every trace.
Next ==
    \/ Register
    \/ Call(1)
    \/ \E msgs \in Traces : AgentReturns(1, msgs)
    \/ AgentRaises(1)

Spec == Init /\ [][Next]_vars

InitServe ==
    /\ InitRequests
    /\ now = WarsawTransitionUtc + 600

\* Requests interleave at the await only.
NextServe ==
    \/ Register
    \/ \E r \in Requests : Call(r)
    \/ \E r \in Requests : \E msgs \in ServeTraces : AgentReturns(r, msgs)
    \/ \E r \in Requests : AgentRaises(r)

SpecServe == InitServe /\ [][NextServe]_vars

----------------------------------------------------------------------------
(* Invocations of _get_timezone_for_city, lines 29-39 *)

ResolverCities == {"Tokyo", "Warsaw"}

\* One invocation: one requests.get (line 32), then lines 33-39 on its response.
ResolveCity(city, resp) ==
    /\ Len(rlog) < MaxInvocations
    /\ geoCalls' = geoCalls + 1
    /\ rlog' = Append(rlog, [city |-> city, resp |-> resp,
                             result |-> _get_timezone_for_city(resp)])
    /\ UNCHANGED <<registered, _graph, created, pc, used, trace, resps, outcome,
                   now, cv>>

InitResolve ==
    /\ InitRequests
    /\ now = 0

NextResolve ==
    \E city \in ResolverCities : \E resp \in GeoResponses(city) : ResolveCity(city, resp)

SpecResolve == InitResolve /\ [][NextResolve]_vars

----------------------------------------------------------------------------
(* convert_time, lines 59-94 *)

ConvertCities == {"Tokyo", "Warsaw", "Krakow", "Dubai"}

\* The well-formed HH:MM inputs: every whole hour, and three half hours.
CanonicalTimeStrs ==
    { strftime_HM(h * 60) : h \in 0..23 }
    \cup { strftime_HM(150), strftime_HM(570), strftime_HM(1410) }

\* Inputs int() and datetime() accept or reject: unpadded, padded with
\* blanks, hour 24, no colon, no digits.
OtherTimeStrs ==
    { <<"9", ":", "3", "0">>, <<" ", "0", "9", ":", "3", "0", " ">>,
      <<"2", "4", ":", "0", "0">>, <<"1", "5">>, <<"n", "o", "o", "n">> }

TimeStrs == CanonicalTimeStrs \cup OtherTimeStrs

RECURSIVE LStrip(_)
LStrip(s) == IF s # <<>> /\ s[1] = " " THEN LStrip(Tail(s)) ELSE s

RECURSIVE RStrip(_)
RStrip(s) ==
    IF s # <<>> /\ s[Len(s)] = " " THEN RStrip(SubSeq(s, 1, Len(s) - 1)) ELSE s

\* str.strip()
Strip(s) == RStrip(LStrip(s))

RECURSIVE SplitAcc(_, _, _, _)
SplitAcc(s, sep, cur, out) ==
    IF s = <<>> THEN Append(out, cur)
    ELSE IF s[1] = sep THEN SplitAcc(Tail(s), sep, <<>>, Append(out, cur))
    ELSE SplitAcc(Tail(s), sep, Append(cur, s[1]), out)

\* str.split(sep)
Split(s, sep) == SplitAcc(s, sep, <<>>, <<>>)

Digits == {"0", "1", "2", "3", "4", "5", "6", "7", "8", "9"}

DigitValue(ch) == CHOOSE n \in 0..9 : Digit(n) = ch

RECURSIVE DecimalValue(_)
DecimalValue(s) ==
    IF s = <<>> THEN 0 ELSE 10 * DecimalValue(SubSeq(s, 1, Len(s) - 1)) + DigitValue(s[Len(s)])

\* int(s) for unsigned decimal text, blanks around it ignored.
ParseInt(s) ==
    LET c == Strip(s)
    IN  IF c = <<>> \/ \E i \in 1..Len(c) : c[i] \notin Digits
        THEN [raised |-> "ValueError", n |-> 0]
        ELSE [raised |-> "none", n |-> DecimalValue(c)]

\* Line 79: datetime.now(source_tz).date(), as a day number.
Today(tz, clock) == WallNow(tz, clock) \div 1440

\* source_dt built without tzinfo=source_tz, and read as UTC.
astimezone_SourceReadAsUtc(wall, source_tz, target_tz) ==
    wall + UtcOffsetAt(target_tz, wall)

\* Line 83: datetime.astimezone: the same tzinfo object returns the time
\* unchanged; else through the UTC instant of the wall-clock time.
astimezone(wall, source_tz, target_tz) ==
    IF source_tz = target_tz THEN wall
    ELSE LET utc == wall - WallOffsetAt(source_tz, wall)
         IN  utc + UtcOffsetAt(target_tz, utc)

ConvertFailure(err) == [raised |-> err, source_hm |-> <<>>, target_hm |-> <<>>, text |-> ""]

\* Lines 70-94, given the provider's two responses and the clock.
convert_time(source_city, target_city, time_str, source_resp, target_resp, clock) ==
    LET s == _get_timezone_for_city(source_resp)
        t == _get_timezone_for_city(target_resp)
        time_parts == Split(Strip(time_str), ":")
    IN  IF s.raised # "none" THEN ConvertFailure(s.raised)
        ELSE IF t.raised # "none" THEN ConvertFailure(t.raised)
        ELSE IF s.value \notin ZoneKeys \/ t.value \notin ZoneKeys
             THEN ConvertFailure("ZoneInfoNotFoundError")
        ELSE IF ParseInt(time_parts[1]).raised # "none" THEN ConvertFailure("ValueError")
        ELSE IF Len(time_parts) < 2 THEN ConvertFailure("IndexError")
        ELSE IF ParseInt(time_parts[2]).raised # "none" THEN ConvertFailure("ValueError")
        ELSE LET hour == ParseInt(time_parts[1]).n
                 minute == ParseInt(time_parts[2]).n
             IN  IF hour > 23 \/ minute > 59 THEN ConvertFailure("ValueError")
                 ELSE LET source_dt == Today(s.value, clock) * 1440 + hour * 60 + minute
                          target_dt == astimezone(source_dt, s.value, t.value)
                      IN  [raised |-> "none",
                           source_hm |-> strftime_HM(source_dt),
                           target_hm |-> strftime_HM(target_dt),
                           text |-> Text(strftime_HM(source_dt)) \o " in " \o source_city
                                    \o " = " \o Text(strftime_HM(target_dt)) \o " in "
                                    \o target_city \o " (currently "
                                    \o Text(strftime_HM(WallNow(s.value, clock))) \o " "
                                    \o TzName(s.value, clock) \o " in " \o source_city
                                    \o ", "
                                    \o Text(strftime_HM(WallNow(t.value, clock))) \o " "
                                    \o TzName(t.value, clock) \o " in " \o target_city
                                    \o ")"]

\* The provider's answers a conversion is checked over: a match, no match.
ConvertResponses(city) == {OkResponse(city), NoResultsResponse}

\* The clock advances by six hours.
ClockStep == 6 * 60

\* A convert_time call from source city A to target city B.
Forward(A, B, ts) ==
    /\ cv.phase = "none"
    /\ \E ra \in ConvertResponses(A) : \E rb \in ConvertResponses(B) :
         cv' = [phase |-> "forward", A |-> A, B |-> B, t |-> ts,
                resolved |-> ra = OkResponse(A) /\ rb = OkResponse(B),
                fwd |-> convert_time(A, B, ts, ra, rb, now),
                back |-> ConvertFailure("none")]
    /\ UNCHANGED <<registered, _graph, created, pc, used, trace, resps, outcome,
                   now, rlog, geoCalls>>

\* The swapped call, from B to A, on the clock time the forward call gave.
Back ==
    /\ cv.phase = "forward"
    /\ cv.fwd.raised = "none"
    /\ cv' = [cv EXCEPT !.phase = "back",
                        !.back = convert_time(cv.B, cv.A, cv.fwd.target_hm,
                                              OkResponse(cv.B), OkResponse(cv.A), now)]
    /\ UNCHANGED <<registered, _graph, created, pc, used, trace, resps, outcome,
                   now, rlog, geoCalls>>

\* Time passes, up to the end of the last day of the window.
Tick ==
    /\ now + ClockStep < (MaxDays + 1) * 1440
    /\ now' = now + ClockStep
    /\ UNCHANGED <<registered, _graph, created, pc, used, trace, resps, outcome,
                   rlog, geoCalls, cv>>

InitConvert ==
    /\ InitRequests
    /\ now \in {k * ClockStep : k \in 0..(4 * MaxDays)}

NextConvert ==
    \/ \E A \in ConvertCities : \E B \in ConvertCities : \E ts \in TimeStrs :
          Forward(A, B, ts)
    \/ Back
    \/ Tick

SpecConvert == InitConvert /\ [][NextConvert]_vars

----------------------------------------------------------------------------
(* What the claims speak of *)

CityKeys == {"city_name", "source_city", "target_city"}

\* The tool invocations of a trace, in trace order.
RECURSIVE Invocations(_)
Invocations(msgs) ==
    IF msgs = <<>> THEN <<>>
    ELSE (IF msgs[1].type = "ai" THEN msgs[1].tool_calls ELSE <<>>)
         \o Invocations(Tail(msgs))

\* The values under a city key of any invocation of the trace.
DiscoveredCities(msgs) ==
    LET tcs == Invocations(msgs)
    IN  UNION { { tcs[i].args[k] : k \in CityKeys \cap DOMAIN tcs[i].args } :
                i \in 1..Len(tcs) }

IsToolResult(msg) == msg.type = "tool"

\* The contents of the tool-result entries, in trace order.
ToolContents(msgs) ==
    LET results == SelectSeq(msgs, IsToolResult)
    IN  [i \in 1..Len(results) |-> results[i].content]

\* The text of the closing (last) message of a trace.
ClosingText(msgs) == msgs[Len(msgs)].content.text

\* "Current time in {city}: HH:MM ZONE" for a zone, at the clock's reading.
NowFragment(city, tz) ==
    StrVal("Current time in " \o city.text \o ": "
           \o Text(strftime_HM(now + UtcOffsetAt(tz, now))) \o " " \o TzName(tz, now))

IsFragmentOf(part, city) == \E tz \in ZoneKeys : part = NowFragment(city, tz)

HasFragment(parts, city) == \E i \in 1..Len(parts) : IsFragmentOf(parts[i], city)

\* The provider named a zone ZoneInfo knows: the lookup of the city succeeds.
LookupSucceeds(resp) ==
    /\ resp.status_code = 200
    /\ "results" \in DOMAIN resp.json
    /\ Len(resp.json.results) > 0
    /\ "timezone" \in DOMAIN resp.json.results[1]
    /\ resp.json.results[1].timezone \in ZoneKeys

\* The post-pass looked city c up for request r, and the lookup succeeded.
LookupSucceeded(r, c) == c \in DOMAIN resps[r] /\ LookupSucceeds(resps[r][c])

\* The post-pass looked city c up for request r, and the lookup failed.
LookupFailed(r, c) == c \in DOMAIN resps[r] /\ ~LookupSucceeds(resps[r][c])

\* Request r got a trace from the agent loop.
GotTrace(r) == pc[r] \in {"returned", "raised"} /\ trace[r] # <<>>

\* The fragments of the answer after its leading ones.
FragmentsAfter(parts, n) == SubSeq(parts, n + 1, Len(parts))

\* The number of leading fragments: the tool results, or the closing message.
LeadingCount(msgs) ==
    IF ToolContents(msgs) = <<>> THEN 1 ELSE Len(ToolContents(msgs))

\* The same invocations in another order, as one round of calls.
Reordered(msgs, p) ==
    LET tcs == Invocations(msgs)
    IN  BuildTrace([i \in 1..Len(tcs) |-> tcs[p[i]]], {}, msgs[Len(msgs)].content)

----------------------------------------------------------------------------
(* C1 *)

\* C1 as stated: in every answer returned, every city named under city_name,
\* source_city or target_city by an invocation of the trace has a
\* "Current time in {city}: ..." fragment, whatever the lookups' outcomes.
C1_EveryCityAlwaysPresent ==
    pc[1] = "returned" =>
        \A c \in DiscoveredCities(trace[1]) : HasFragment(outcome[1].parts, c)

\* C1 amended: in every answer returned, every city named under city_name,
\* source_city or target_city by an invocation of the trace has a
\* "Current time in {city}: ..." fragment, unless its own post-pass lookup
\* failed: no other city is omitted.
C1_EveryResolvedCityPresent ==
    pc[1] = "returned" =>
        \A c \in DiscoveredCities(trace[1]) :
            HasFragment(outcome[1].parts, c) \/ LookupFailed(1, c)

\* An answer for a conversion between two cities, both lookups succeeding.
C1_Witness ==
    /\ pc[1] = "returned"
    /\ \E i \in 1..Len(Invocations(trace[1])) :
          /\ "source_city" \in DOMAIN Invocations(trace[1])[i].args
          /\ Invocations(trace[1])[i].args.source_city = StrVal("Warsaw")
    /\ Cardinality(DiscoveredCities(trace[1])) = 2
    /\ \A c \in DiscoveredCities(trace[1]) :
          LookupSucceeded(1, c) /\ HasFragment(outcome[1].parts, c)

----------------------------------------------------------------------------
(* C2 *)

\* C2: a trace without any tool invocation is answered, and its answer is
\* exactly the text of the trace's last message: one fragment, no lookup.
C2_NoInvocationFallsBack ==
    (GotTrace(1) /\ Invocations(trace[1]) = <<>>) =>
        /\ pc[1] = "returned"
        /\ outcome[1].answer = ClosingText(trace[1])
        /\ Len(outcome[1].parts) = 1
        /\ outcome[1].lookups = <<>>
        /\ DOMAIN resps[1] = {}

\* A trace of the user's message and the closing message alone was answered.
C2_Witness ==
    /\ pc[1] = "returned"
    /\ Len(trace[1]) = 2
    /\ outcome[1].answer = "It is evening in Tokyo."

----------------------------------------------------------------------------
(* C3 *)

AllLookupsSucceed(r) ==
    \A c \in DiscoveredCities(trace[r]) : LookupSucceeded(r, c)

\* C3: when every lookup succeeds, the fragments after the tool results are
\* one per distinct city, in ascending code-point order of the city names,
\* and any reordering of the trace's invocations gives the same fragments.
C3_OnePerCitySorted ==
    (pc[1] = "returned" /\ AllLookupsSucceed(1)) =>
        LET msgs == trace[1]
            frags == FragmentsAfter(outcome[1].parts, LeadingCount(msgs))
            cities == DiscoveredCities(msgs)
        IN  /\ Len(frags) = Cardinality(cities)
            /\ \A c \in cities :
                  Cardinality({i \in 1..Len(frags) : IsFragmentOf(frags[i], c)}) = 1
            /\ \A i \in 1..Len(frags) : \A j \in (i + 1)..Len(frags) :
                  \E c \in cities : \E d \in cities :
                     /\ IsFragmentOf(frags[i], c)
                     /\ IsFragmentOf(frags[j], d)
                     /\ StrLess(c.text, d.text)
            /\ \A p \in Permutations(1..Len(Invocations(msgs))) :
                  FragmentsAfter(_response_fn(Reordered(msgs, p), resps[1], now).parts,
                                 LeadingCount(msgs)) = frags

\* Tokyo is asked for after Warsaw, and twice over; the answer lists Tokyo
\* once, then Warsaw.
C3_Witness ==
    /\ pc[1] = "returned"
    /\ AllLookupsSucceed(1)
    /\ Invocations(trace[1]) = <<convert_time_call(StrVal("Warsaw"), StrVal("Tokyo")),
                                 get_current_time_call(StrVal("Tokyo"))>>
    /\ Len(outcome[1].parts) = 4
    /\ IsFragmentOf(outcome[1].parts[3], StrVal("Tokyo"))
    /\ IsFragmentOf(outcome[1].parts[4], StrVal("Warsaw"))

----------------------------------------------------------------------------
(* C4 *)

\* C4: once the post-pass starts, the request returns; every discovered city
\* is looked up, in sorted order, whatever the lookups before it gave; the
\* answer holds the fragment of exactly the cities whose lookup succeeded,
\* after all the tool results.
C4_FailedLookupsOnlyDropTheirCity ==
    /\ (GotTrace(1) /\ outcome[1].lookups # <<>>) => pc[1] = "returned"
    /\ pc[1] = "returned" =>
         LET msgs == trace[1]
             parts == outcome[1].parts
             cities == DiscoveredCities(msgs)
             lookups == outcome[1].lookups
         IN  /\ Len(lookups) = Cardinality(cities)
             /\ {lookups[i] : i \in 1..Len(lookups)} = cities
             /\ \A i \in 1..Len(lookups) : \A j \in (i + 1)..Len(lookups) :
                   StrLess(lookups[i].text, lookups[j].text)
             /\ \A c \in cities : HasFragment(parts, c) <=> LookupSucceeded(1, c)
             /\ Len(parts) = LeadingCount(msgs)
                   + Cardinality({c \in cities : LookupSucceeded(1, c)})
             /\ ToolContents(msgs) # <<>> =>
                   SubSeq(parts, 1, Len(ToolContents(msgs))) = ToolContents(msgs)

\* The lookup of Tokyo fails in an outage; Warsaw, looked up after it, is
\* in the answer.
C4_Witness ==
    /\ pc[1] = "returned"
    /\ DiscoveredCities(trace[1]) = {StrVal("Tokyo"), StrVal("Warsaw")}
    /\ resps[1][StrVal("Tokyo")].status_code = 503
    /\ LookupSucceeded(1, StrVal("Warsaw"))
    /\ HasFragment(outcome[1].parts, StrVal("Warsaw"))
    /\ ~HasFragment(outcome[1].parts, StrVal("Tokyo"))
    /\ Len(outcome[1].parts) = 3

----------------------------------------------------------------------------
(* C5 *)

\* C5 as stated: a request raises only if the agent loop's invocation
\* raised; once a trace is returned, an answer is returned.
C5_OnlyTheAgentLoopRaises ==
    pc[1] = "raised" => outcome[1].raised = "AgentLoopFailure"

----------------------------------------------------------------------------
(* C6 *)

AgentLoopFailed(r) == pc[r] = "raised" /\ outcome[r].raised = "AgentLoopFailure"

\* C6: a request whose agent loop raised has no answer, not a fragment of
\* one, and issued no lookup; and the step in which the loop raises leaves
\* the agent object in place, the one the request was given.
C6_AgentLoopFailureIsFatal ==
    /\ [](\A r \in Requests :
            AgentLoopFailed(r) =>
               /\ outcome[r].answer = ""
               /\ outcome[r].parts = <<>>
               /\ outcome[r].lookups = <<>>
               /\ DOMAIN resps[r] = {}
               /\ _graph = used[r]
               /\ _graph # 0)
    /\ [][\A r \in Requests :
            (~AgentLoopFailed(r) /\ AgentLoopFailed(r)') =>
               (_graph' = _graph /\ created' = created)]_vars

\* One request failed in the agent loop while another was answered.
C6_Witness ==
    \E r \in Requests : \E q \in Requests :
        /\ AgentLoopFailed(r)
        /\ pc[q] = "returned"
        /\ used[q] = used[r]

----------------------------------------------------------------------------
(* C7 *)

\* C7: no agent object exists until a request has started, registration
\* included; from the first request's start on there is exactly one, built
\* once, and it is the one every request is given.
C7_BuiltOnceOnFirstRequest ==
    /\ (\A r \in Requests : pc[r] = "idle") => (created = 0 /\ _graph = 0)
    /\ (\E r \in Requests : pc[r] # "idle") =>
          (registered /\ created = 1 /\ _graph = 1)
    /\ \A r \in Requests : pc[r] # "idle" => used[r] = _graph

\* Two requests are suspended at the await at once, on one agent object.
C7_Witness ==
    /\ created = 1
    /\ \E r \in Requests : \E q \in Requests :
          r # q /\ pc[r] = "awaiting" /\ pc[q] = "awaiting" /\ used[r] = used[q]

----------------------------------------------------------------------------
(* C8 *)

\* The zones of the model whose UTC offset never changes.
FixedOffsetZones == {"Asia/Tokyo", "Asia/Dubai"}

WholeHourOffsets(tz) ==
    \A utc \in {0, (MaxDays + 1) * 1440} : UtcOffsetAt(tz, utc) % 60 = 0

\* Both conversions ran, on a well-formed time, with both cities resolved.
RoundTripDone ==
    /\ cv.phase = "back"
    /\ cv.resolved
    /\ cv.t \in CanonicalTimeStrs

SameZoneConverted ==
    /\ cv.phase \in {"forward", "back"}
    /\ cv.resolved
    /\ cv.t \in CanonicalTimeStrs
    /\ TzOf(cv.A) = TzOf(cv.B)

\* C8 as stated: for cities in zones of whole-hour offsets, converting t
\* from A to B and the result back from B to A gives t again.
C8_RoundTripWholeHourZones ==
    (RoundTripDone /\ WholeHourOffsets(TzOf(cv.A)) /\ WholeHourOffsets(TzOf(cv.B))) =>
        (cv.back.raised = "none" /\ cv.back.target_hm = cv.t)

\* C8 amended: for cities in zones whose whole-hour UTC offset never changes,
\* converting t from A to B and the result back from B to A gives t again,
\* whatever the clock reads at either call; and for two cities of one zone,
\* changing or not, the conversion does not fail and shows t on both sides.
C8_RoundTripFixedOffsetZones ==
    /\ (RoundTripDone /\ TzOf(cv.A) \in FixedOffsetZones
                      /\ TzOf(cv.B) \in FixedOffsetZones
                      /\ WholeHourOffsets(TzOf(cv.A)) /\ WholeHourOffsets(TzOf(cv.B))) =>
          (cv.back.raised = "none" /\ cv.back.target_hm = cv.t)
    /\ SameZoneConverted =>
          (cv.fwd.raised = "none" /\ cv.fwd.source_hm = cv.t /\ cv.fwd.target_hm = cv.t)

\* 15:00 in Dubai is 20:00 in Tokyo, and 20:00 in Tokyo is 15:00 in Dubai; the
\* backward call was made on a later day than the forward one.
C8_Witness ==
    /\ RoundTripDone
    /\ cv.A = "Dubai" /\ cv.B = "Tokyo"
    /\ cv.t = <<"1", "5", ":", "0", "0">>
    /\ cv.fwd.target_hm = <<"2", "0", ":", "0", "0">>
    /\ cv.back.target_hm = <<"1", "5", ":", "0", "0">>
    /\ cv.back.text # cv.fwd.text
    /\ now >= 1440

----------------------------------------------------------------------------
(* C9 *)

\* C9 as stated: on a response of success status the resolver either fails
\* with CityNotFound, the results being missing or empty, or returns a
\* non-empty zone; and each invocation made one geocoding request.
C9_NeverFalsy ==
    /\ geoCalls = Len(rlog)
    /\ \A i \in 1..Len(rlog) :
          rlog[i].resp.status_code = 200 =>
             \/ /\ rlog[i].result.raised = "ValueError"
                /\ \/ "results" \notin DOMAIN rlog[i].resp.json
                   \/ Len(rlog[i].resp.json.results) = 0
             \/ /\ rlog[i].result.raised = "none"
                /\ rlog[i].result.value # ""

\* C9 amended: on a response of success status the resolver fails with
\* CityNotFound exactly when the results are missing or empty; else it fails
\* with KeyError when the first match has no timezone field; else it returns
\* the first match's timezone field as it is, empty only if the provider sent
\* it empty.  Each invocation made one geocoding request.
C9_FirstMatchVerbatim ==
    /\ geoCalls = Len(rlog)
    /\ \A i \in 1..Len(rlog) :
          LET resp == rlog[i].resp
              result == rlog[i].result
              noMatch == \/ "results" \notin DOMAIN resp.json
                         \/ Len(resp.json.results) = 0
          IN  resp.status_code = 200 =>
                 /\ result.raised = "ValueError" <=> noMatch
                 /\ (~noMatch /\ "timezone" \notin DOMAIN resp.json.results[1])
                       => result.raised = "KeyError"
                 /\ (~noMatch /\ "timezone" \in DOMAIN resp.json.results[1])
                       => /\ result.raised = "none"
                          /\ result.value = resp.json.results[1].timezone

\* An empty results array was refused, then a match's zone returned.
C9_Witness ==
    /\ Len(rlog) = 2
    /\ geoCalls = 2
    /\ rlog[1].resp.json = [results |-> <<>>]
    /\ rlog[1].result.raised = "ValueError"
    /\ rlog[2].result = Returned("Europe/Warsaw")

----------------------------------------------------------------------------
(* C10 *)

\* C10: with a tool result in the trace, the answer begins with the tool
\* results' contents, as they are and in trace order, every fragment after
\* them is a city's current time, and none is the closing message's text;
\* without one, the answer begins with the closing message's text.
C10_ToolResultsLeadClosingDropped ==
    pc[1] = "returned" =>
        LET msgs == trace[1]
            parts == outcome[1].parts
            n == Len(ToolContents(msgs))
        IN  /\ n > 0 =>
                 /\ SubSeq(parts, 1, n) = ToolContents(msgs)
                 /\ \A i \in (n + 1)..Len(parts) :
                       \E c \in DiscoveredCities(msgs) : IsFragmentOf(parts[i], c)
                 /\ \A i \in 1..Len(parts) : parts[i].text # ClosingText(msgs)
            /\ n = 0 => parts[1].text = ClosingText(msgs)

\* Two tool results lead the answer, in trace order, before Tokyo's time.
C10_Witness ==
    /\ pc[1] = "returned"
    /\ Len(ToolContents(trace[1])) = 2
    /\ Len(outcome[1].parts) = 3
    /\ outcome[1].parts[1].text = "tool output 1"
    /\ outcome[1].parts[2].text = "tool output 2"
    /\ IsFragmentOf(outcome[1].parts[3], StrVal("Tokyo"))

====
